---- MODULE Spec2Model ----
(***************************************************************************)
(* camelbot: scrap.py (fetch a page, extract an inventory of interactive   *)
(* controls, serialise it as JSON) and llm.py (one chat-completion call).  *)
(*                                                                         *)
(* A Python str is modelled as a sequence of one-character strings, so     *)
(* that len(), slicing, split() and strip() are computed as Python         *)
(* computes them.  None is the empty sequence <<>> and a present optional  *)
(* value x is <<x>>.                                                       *)
(***************************************************************************)
EXTENDS Integers, Sequences, FiniteSets, TLC

VARIABLES
    soup,          \* the parsed tree: nodes in document (pre-)order
    tree,          \* ids of the nodes still attached to the tree
    max_text_len,  \* extract_controls_inventory's keyword argument
    pc,            \* position inside extract_controls_inventory / main
    selected,      \* the result of soup.select(CONTROL_SELECTOR)
    idx,           \* position of the for loop over selected
    items,         \* the list of ControlItem built so far
    itemSrc,       \* history: the node each item was built from
    inv_json,      \* the string returned by inventory_to_json
    fpc,           \* position inside fetch_html / main
    retries,       \* urllib3 Retry.total still left for the current request
    redirects,     \* len(resp.history): redirects followed so far
    resp,          \* the response the adapter returned last
    sent,          \* history: transmissions of the current request
    sentAll,       \* history: transmissions of the whole HTTP attempt
    retried,       \* history: the response that was retried last
    httpResult,    \* history: how fetch_html_requests ended
    browserStarts, \* history: calls of fetch_html_playwright
    html,          \* the markup fetch_html returned to main
    cpc,           \* position inside llm.py
    data,          \* llm.py: the parsed response body
    cur,           \* llm.py: the value the subscription chain has reached
    printed        \* llm.py: what was written to the terminal

extractVars == <<soup, tree, max_text_len, pc, selected, idx, items, itemSrc, inv_json>>
fetchVars == <<fpc, retries, redirects, resp, sent, sentAll, retried, httpResult,
               browserStarts, html>>
chatVars == <<cpc, data, cur, printed>>
vars == <<extractVars, fetchVars, chatVars>>

----------------------------------------------------------------------------
(* Bounds of the model *)

\* nodes of a document in the tree-shaped inputs
MaxNodes == 3
\* attributes of one element in the attribute-rich inputs
MaxAttrs == 2
\* characters of one text node in the text inputs
MaxChars == 4
\* largest max_text_len tried in the text inputs
MaxTextLen == 3
\* main's max_text_len, used for the other inputs
MainTextLen == 80

----------------------------------------------------------------------------
(* Python str helpers *)

Min(a, b) == IF a < b THEN a ELSE b
Max(a, b) == IF a > b THEN a ELSE b

None == <<>>
Some(x) == <<x>>

\* a TLA+ string as a sequence of characters
Chars(s) == [i \in 1..Len(s) |-> SubSeq(s, i, i)]

\* str.isspace for the characters of the model
IsSpace(c) == c \in {" ", "\n", "\t"}

\* s[:k] with Python's slice semantics (a negative k counts from the end)
PySlice(s, k) ==
    IF k >= 0 THEN SubSeq(s, 1, Min(k, Len(s)))
    ELSE SubSeq(s, 1, Max(Len(s) + k, 0))

RECURSIVE lstrip(_)
lstrip(s) ==
    IF s = <<>> THEN s
    ELSE IF IsSpace(Head(s)) THEN lstrip(Tail(s)) ELSE s

RECURSIVE rstrip(_)
rstrip(s) ==
    IF s = <<>> THEN s
    ELSE IF IsSpace(s[Len(s)]) THEN rstrip(SubSeq(s, 1, Len(s) - 1)) ELSE s

strip(s) == rstrip(lstrip(s))

\* length of the leading run of non-whitespace characters
RECURSIVE WordLen(_)
WordLen(s) ==
    IF s = <<>> \/ IsSpace(Head(s)) THEN 0 ELSE 1 + WordLen(Tail(s))

\* str.split(): the maximal runs of non-whitespace characters
RECURSIVE split(_)
split(s) ==
    LET t == lstrip(s) IN
    IF t = <<>> THEN <<>>
    ELSE LET n == WordLen(t) IN
         <<SubSeq(t, 1, n)>> \o split(SubSeq(t, n + 1, Len(t)))

\* sep.join(parts)
RECURSIVE join(_, _)
join(sep, parts) ==
    IF parts = <<>> THEN <<>>
    ELSE IF Len(parts) = 1 THEN parts[1]
    ELSE parts[1] \o sep \o join(sep, Tail(parts))

\* str.lower() for the characters of the model
LowerChar(c) ==
    CASE c = "T" -> "t" [] c = "R" -> "r" [] c = "U" -> "u" [] c = "E" -> "e"
      [] c = "H" -> "h" [] c = "I" -> "i" [] c = "D" -> "d" [] c = "N" -> "n"
      [] OTHER -> c
lower(s) == [i \in 1..Len(s) |-> LowerChar(s[i])]

\* str.startswith on names, which are kept as TLA+ strings
startswith(k, prefix) ==
    Len(k) >= Len(prefix) /\ SubSeq(k, 1, Len(prefix)) = prefix

----------------------------------------------------------------------------
(* Configuration *)

\* the compound selector: a list of simple selectors, a type selector
\* (by tag name) or an attribute selector [role=v]
CONTROL_SELECTOR ==
    << [by |-> "tag", v |-> "button"], [by |-> "tag", v |-> "a"],
       [by |-> "tag", v |-> "input"], [by |-> "tag", v |-> "textarea"],
       [by |-> "tag", v |-> "select"], [by |-> "tag", v |-> "option"],
       [by |-> "tag", v |-> "label"], [by |-> "tag", v |-> "summary"],
       [by |-> "tag", v |-> "details"],
       [by |-> "role", v |-> "button"], [by |-> "role", v |-> "link"],
       [by |-> "role", v |-> "textbox"], [by |-> "role", v |-> "searchbox"],
       [by |-> "role", v |-> "combobox"], [by |-> "role", v |-> "listbox"],
       [by |-> "role", v |-> "checkbox"], [by |-> "role", v |-> "radio"],
       [by |-> "role", v |-> "tab"], [by |-> "role", v |-> "menuitem"] >>

KEEP_ATTRS ==
    { "id", "name", "type", "placeholder", "value", "href", "for",
      "role", "aria-label", "aria-labelledby", "aria-describedby",
      "data-testid", "data-test", "data-qa" }

NOISE_TAGS == {"script", "style", "noscript", "svg", "img", "video", "canvas"}

\* the literal appended on truncation: three characters in the source file
\* (U+00E2, U+20AC, U+00A6), not the single character U+2026
ELLIPSIS == <<"U+00E2", "U+20AC", "U+00A6">>

----------------------------------------------------------------------------
(* The parsed tree (bs4, html.parser)                                      *)
(*                                                                         *)
(* soup[i] is the i-th node in document order: an element (tag, attrs), a  *)
(* text node or a comment (str), with the id of its parent (0: the         *)
(* BeautifulSoup object).  An attribute value is [t, parts]: a string      *)
(* (t = "str", parts = <<s>>), a list of strings (t = "list", bs4's        *)
(* multi-valued attributes) or None (t = "none").                          *)

StrVal(s) == [t |-> "str", parts |-> <<Chars(s)>>]
NoneVal == [t |-> "none", parts |-> <<>>]

Elem(tag, attrs, parent) ==
    [kind |-> "elem", tag |-> tag, attrs |-> attrs, str |-> <<>>, parent |-> parent]
Text(s, parent) ==
    [kind |-> "text", tag |-> "", attrs |-> <<>>, str |-> s, parent |-> parent]
CommentNode(s, parent) ==
    [kind |-> "comment", tag |-> "", attrs |-> <<>>, str |-> s, parent |-> parent]

\* j is a proper ancestor of i
RECURSIVE IsAncestor(_, _, _)
IsAncestor(doc, j, i) ==
    LET p == doc[i].parent IN
    IF p = 0 THEN FALSE ELSE p = j \/ IsAncestor(doc, j, p)

Subtree(doc, i) == {i} \cup {k \in 1..Len(doc) : IsAncestor(doc, i, k)}

\* the ids of a set in document order
RECURSIVE InOrder(_)
InOrder(S) ==
    IF S = {} THEN <<>>
    ELSE LET m == CHOOSE x \in S : \A y \in S : x <= y IN
         <<m>> \o InOrder(S \ {m})

\* el.get(name): the attribute's value, None when the element has none
get(el, name) == IF name \in DOMAIN el.attrs THEN el.attrs[name] ELSE NoneVal

\* `el.get(name) or ""` for an attribute bs4 keeps as one string
getOrEmpty(el, name) ==
    LET v == get(el, name) IN
    IF v.t = "str" THEN v.parts[1] ELSE <<>>

----------------------------------------------------------------------------
(* Minimization / Extraction *)

_normalize_text(text) == strip(join(<<" ">>, split(text)))

\* _remove_comments: every Comment node is extracted
_remove_comments(doc, t) == t \ {i \in t : doc[i].kind = "comment"}

\* decompose as unwrap would do it: only the tag itself leaves
decompose_tag_only(doc, t, i) == t \ {i}

\* Tag.decompose(): the tag and everything below it leave the tree
decompose(doc, t, i) == t \ Subtree(doc, i)

\* _remove_noise: soup(NOISE_TAGS) is evaluated first, then each tag found
\* is decomposed in turn
RECURSIVE DecomposeAll(_, _, _)
DecomposeAll(doc, t, tags) ==
    IF tags = <<>> THEN t
    ELSE DecomposeAll(doc, decompose(doc, t, Head(tags)), Tail(tags))

_remove_noise(doc, t) ==
    DecomposeAll(doc, t,
        InOrder({i \in t : doc[i].kind = "elem" /\ doc[i].tag \in NOISE_TAGS}))

\* one simple selector of CONTROL_SELECTOR against one element
MatchesSimple(el, sel) ==
    IF sel.by = "tag" THEN el.tag = sel.v
    ELSE get(el, "role") = StrVal(sel.v)

Matches(el) ==
    /\ el.kind = "elem"
    /\ \E k \in 1..Len(CONTROL_SELECTOR) : MatchesSimple(el, CONTROL_SELECTOR[k])

\* select evaluated one simple selector after the other, the results chained
RECURSIVE SelectParts(_, _, _)
SelectParts(doc, t, parts) ==
    IF parts = <<>> THEN <<>>
    ELSE InOrder({i \in t : doc[i].kind = "elem" /\ MatchesSimple(doc[i], Head(parts))})
         \o SelectParts(doc, t, Tail(parts))
select_per_part(doc, t) == SelectParts(doc, t, CONTROL_SELECTOR)

\* soup.select(CONTROL_SELECTOR): the attached elements matching any part of
\* the selector, each once, in document order
select(doc, t) == InOrder({i \in t : Matches(doc[i])})

\* _is_hidden without the .lower() calls
_is_hidden_case_sensitive(el) ==
    \/ getOrEmpty(el, "aria-hidden") = Chars("true")
    \/ el.tag = "input" /\ getOrEmpty(el, "type") = Chars("hidden")

_is_hidden(el) ==
    IF lower(getOrEmpty(el, "aria-hidden")) = Chars("true") THEN TRUE
    ELSE IF el.tag = "input" /\ lower(getOrEmpty(el, "type")) = Chars("hidden") THEN TRUE
    ELSE FALSE

\* el.get_text(" ", strip=True): the strings below el, each stripped, the
\* empty ones left out, joined by the separator
RECURSIVE StrippedStrings(_, _)
StrippedStrings(doc, ids) ==
    IF ids = <<>> THEN <<>>
    ELSE LET s == strip(doc[Head(ids)].str) IN
         (IF s = <<>> THEN <<>> ELSE <<s>>) \o StrippedStrings(doc, Tail(ids))

get_text(doc, t, i) ==
    join(<<" ">>,
         StrippedStrings(doc,
             InOrder({k \in t : doc[k].kind = "text" /\ IsAncestor(doc, i, k)})))

\* lines 186-188: the normalized text, truncated when longer than the limit
ItemText(doc, t, i, limit) ==
    LET text == _normalize_text(get_text(doc, t, i)) IN
    IF text # <<>> /\ Len(text) > limit
    THEN PySlice(text, limit - 1) \o ELLIPSIS
    ELSE text

\* lines 167-171: the value stored for a kept attribute
AttrString(v) == IF v.t = "list" THEN join(<<" ">>, v.parts) ELSE v.parts[1]

\* the allow-list without the prefix test
KeepName_exact(k, keep) == k \in keep

KeepName(k, keep) == k \in keep \/ startswith(k, "data-test")

_filter_attrs(el, keep_attrs) ==
    [k \in {n \in DOMAIN el.attrs : KeepName(n, keep_attrs) /\ el.attrs[n].t # "none"}
        |-> AttrString(el.attrs[k])]

ControlItem(tag, text, attrs) == [tag |-> tag, text |-> text, attrs |-> attrs]

\* `x or None`
OrNone(x) == IF x = <<>> THEN None ELSE Some(x)

\* the drop test with `or` for `and`
Dropped_either(text, attrs) == text = <<>> \/ DOMAIN attrs = {}

\* line 192: `not text and not attrs`
Dropped(text, attrs) == text = <<>> /\ DOMAIN attrs = {}

----------------------------------------------------------------------------
(* Data model and serialisation *)

\* a JSON value: a string, an object (a sequence of <<key, value>>) or an
\* array (a sequence of values)
JStr(s) == [t |-> "str", s |-> s, m |-> <<>>]
JObj(m) == [t |-> "obj", s |-> <<>>, m |-> m]
JArr(a) == [t |-> "arr", s |-> <<>>, m |-> a]

\* a dict of str as the pairs json.dumps walks through (the order of the
\* keys is the dict's; the model fixes one)
RECURSIVE DictItems(_)
DictItems(d) ==
    IF DOMAIN d = {} THEN <<>>
    ELSE LET k == CHOOSE x \in DOMAIN d : TRUE IN
         <<<<Chars(k), JStr(d[k])>>>> \o DictItems([x \in DOMAIN d \ {k} |-> d[x]])

\* to_compact_dict without the truth tests: text and attrs always written
to_compact_dict_all_keys(it) ==
    << <<Chars("tag"), JStr(Chars(it.tag))>>,
       <<Chars("text"), JStr(IF it.text = None THEN <<>> ELSE it.text[1])>>,
       <<Chars("attrs"), JObj(DictItems(IF it.attrs = None THEN <<>> ELSE it.attrs[1]))>> >>

\* ControlItem.to_compact_dict: `if self.text` and `if self.attrs` are
\* Python truth tests (None and the empty value are both false)
to_compact_dict(it) ==
    <<<<Chars("tag"), JStr(Chars(it.tag))>>>>
    \o (IF it.text # None /\ it.text[1] # <<>>
        THEN <<<<Chars("text"), JStr(it.text[1])>>>> ELSE <<>>)
    \o (IF it.attrs # None /\ DOMAIN it.attrs[1] # {}
        THEN <<<<Chars("attrs"), JObj(DictItems(it.attrs[1]))>>>> ELSE <<>>)

\* json's string escapes with ensure_ascii=False
EscapeChar(c) ==
    CASE c = "\"" -> <<"\\", "\"">>
      [] c = "\\" -> <<"\\", "\\">>
      [] c = "\n" -> <<"\\", "n">>
      [] c = "\t" -> <<"\\", "t">>
      [] OTHER -> <<c>>

RECURSIVE EscapeStr(_)
EscapeStr(s) == IF s = <<>> THEN <<>> ELSE EscapeChar(Head(s)) \o EscapeStr(Tail(s))

\* json.dumps(v, ensure_ascii=False, separators=(",", ":"))
RECURSIVE dumps(_), DumpMembers(_), DumpElements(_)
dumps(v) ==
    CASE v.t = "str" -> <<"\"">> \o EscapeStr(v.s) \o <<"\"">>
      [] v.t = "obj" -> <<"{">> \o DumpMembers(v.m) \o <<"}">>
      [] v.t = "arr" -> <<"[">> \o DumpElements(v.m) \o <<"]">>
DumpMembers(m) ==
    IF m = <<>> THEN <<>>
    ELSE dumps(JStr(m[1][1])) \o <<":">> \o dumps(m[1][2])
         \o (IF Len(m) = 1 THEN <<>> ELSE <<",">> \o DumpMembers(Tail(m)))
DumpElements(a) ==
    IF a = <<>> THEN <<>>
    ELSE dumps(a[1]) \o (IF Len(a) = 1 THEN <<>> ELSE <<",">> \o DumpElements(Tail(a)))

inventory_to_json(its) ==
    dumps(JArr([i \in 1..Len(its) |-> JObj(to_compact_dict(its[i]))]))

----------------------------------------------------------------------------
(* The documents tried *)

\* void elements have no children; text and comment nodes are leaves
CanHaveChildren(n) == n.kind = "elem" /\ n.tag \notin {"input", "img"}

\* the shapes of a tree of n nodes in document order: each node hangs below
\* the node before it or one of that node's ancestors, or at the top
Shapes(n) ==
    { sh \in [1..n -> [parent : 0..n]] :
        \A i \in 1..n :
            /\ sh[i].parent < i
            /\ \/ sh[i].parent \in {0, i - 1}
               \/ IsAncestor(sh, sh[i].parent, i - 1) }

\* what the parser builds: children only below elements that take them, and
\* never two text nodes side by side
WellFormed(doc) ==
    \A i \in 1..Len(doc) :
        /\ doc[i].parent # 0 => CanHaveChildren(doc[doc[i].parent])
        /\ ~(/\ i > 1
             /\ doc[i].kind = "text" /\ doc[i - 1].kind = "text"
             /\ doc[i - 1].parent = doc[i].parent)

\* the tree of shape sh whose i-th node is of kind ks[i]
Doc(sh, ks) == [i \in 1..Len(sh) |-> [ks[i] EXCEPT !.parent = sh[i].parent]]

\* tree-shaped inputs: few kinds of node, every shape up to MaxNodes
TreeKinds ==
    { Elem("button", <<>>, 0),
      Elem("button", [role |-> StrVal("button")], 0),
      Elem("div", <<>>, 0),
      Elem("div", [role |-> StrVal("link")], 0),
      Elem("svg", <<>>, 0),
      Elem("img", [role |-> StrVal("button")], 0),
      Text(<<"x">>, 0),
      CommentNode(<<"c">>, 0) }

\* soup is one of the trees of up to MaxNodes nodes of these kinds
IsTreeDoc ==
    \E n \in 0..MaxNodes : \E sh \in Shapes(n) : \E ks \in [1..n -> TreeKinds] :
        /\ soup = Doc(sh, ks)
        /\ WellFormed(soup)

\* attribute-rich inputs: one element with up to MaxAttrs attributes drawn
\* from AttrPool, alone or with one text node below it
AttrPool ==
    { <<"aria-hidden", "true">>, <<"aria-hidden", "TRUE">>, <<"aria-hidden", "false">>,
      <<"type", "hidden">>, <<"type", "Hidden">>, <<"type", "text">>,
      <<"role", "button">>, <<"role", "x">>,
      <<"class", "c d">>,
      <<"for", "f g">>,
      <<"id", "">>,
      <<"data-testid", "t">>,
      <<"data-test-foo", "t">>,
      <<"data-tes", "t">> }

\* the value the parser stores: bs4 splits the multi-valued attributes
\* (class on every tag, for on output) into a list
ParserValue(tag, name, s) ==
    IF name = "class" \/ (name = "for" /\ tag = "output")
    THEN [t |-> "list", parts |-> split(Chars(s))]
    ELSE StrVal(s)

AttrSets ==
    { S \in SUBSET AttrPool :
        /\ Cardinality(S) <= MaxAttrs
        /\ \A p \in S, q \in S : p[1] = q[1] => p = q }

ParserAttrs(tag, S) ==
    [n \in {p[1] : p \in S} |->
        ParserValue(tag, n, (CHOOSE p \in S : p[1] = n)[2])]

ElemKinds ==
    { Elem(tag, ParserAttrs(tag, S), 0) :
        tag \in {"button", "input", "div", "output"}, S \in AttrSets }

ElemDocs ==
    { <<e>> : e \in ElemKinds }
    \cup { <<e, Text(s, 1)>> :
             e \in {k \in ElemKinds : CanHaveChildren(k)}, s \in {<<"x">>, <<" ">>} }

\* text inputs: a button holding one text node of up to MaxChars characters,
\* with or without an attribute whose value needs escaping in JSON
TextAlphabet == {"a", " ", "\"", "\\"}

RECURSIVE Strings(_)
Strings(n) ==
    IF n = 0 THEN {<<>>}
    ELSE Strings(n - 1) \cup {Append(s, c) : s \in Strings(n - 1), c \in TextAlphabet}

TextDocs ==
    { <<Elem("button", a, 0), Text(s, 1)>> :
        a \in {<<>>, [id |-> StrVal("a\"\\\n")]},
        s \in Strings(MaxChars) \ {<<>>} }

----------------------------------------------------------------------------
(* extract_controls_inventory and inventory_to_json, step by step *)

ExtractIdle ==
    /\ soup = <<>> /\ tree = {} /\ max_text_len = 0 /\ pc = "idle"
    /\ selected = <<>> /\ idx = 0 /\ items = <<>> /\ itemSrc = <<>> /\ inv_json = <<>>

\* the state after BeautifulSoup(html, "html.parser"), soup being the tree
Parsed(limits) ==
    /\ tree = 1..Len(soup)
    /\ max_text_len \in limits
    /\ pc = "parsed"
    /\ selected = <<>> /\ idx = 0 /\ items = <<>> /\ itemSrc = <<>> /\ inv_json = <<>>

RemoveComments ==
    /\ pc = "parsed"
    /\ tree' = _remove_comments(soup, tree)
    /\ pc' = "comments_removed"
    /\ UNCHANGED <<soup, max_text_len, selected, idx, items, itemSrc, inv_json>>
    /\ UNCHANGED <<fetchVars, chatVars>>

RemoveNoise ==
    /\ pc = "comments_removed"
    /\ tree' = _remove_noise(soup, tree)
    /\ pc' = "noise_removed"
    /\ UNCHANGED <<soup, max_text_len, selected, idx, items, itemSrc, inv_json>>
    /\ UNCHANGED <<fetchVars, chatVars>>

SelectControls ==
    /\ pc = "noise_removed"
    /\ selected' = select(soup, tree)
    /\ idx' = 1
    /\ items' = <<>>
    /\ pc' = "loop"
    /\ UNCHANGED <<soup, tree, max_text_len, itemSrc, inv_json>>
    /\ UNCHANGED <<fetchVars, chatVars>>

\* one iteration of the for loop (lines 182-195)
LoopBody ==
    /\ pc = "loop"
    /\ idx <= Len(selected)
    /\ LET i == selected[idx]
           el == soup[i]
           text == ItemText(soup, tree, i, max_text_len)
           attrs == _filter_attrs(el, KEEP_ATTRS)
       IN IF _is_hidden(el) \/ Dropped(text, attrs)
          THEN UNCHANGED <<items, itemSrc>>
          ELSE /\ items' = Append(items,
                       ControlItem(el.tag, OrNone(text),
                                   IF DOMAIN attrs = {} THEN None ELSE Some(attrs)))
               /\ itemSrc' = Append(itemSrc, i)
    /\ idx' = idx + 1
    /\ UNCHANGED <<soup, tree, max_text_len, pc, selected, inv_json>>
    /\ UNCHANGED <<fetchVars, chatVars>>

ReturnItems ==
    /\ pc = "loop"
    /\ idx > Len(selected)
    /\ pc' = "done"
    /\ UNCHANGED <<soup, tree, max_text_len, selected, idx, items, itemSrc, inv_json>>
    /\ UNCHANGED <<fetchVars, chatVars>>

InventoryToJson ==
    /\ pc = "done"
    /\ inv_json' = inventory_to_json(items)
    /\ pc' = "serialized"
    /\ UNCHANGED <<soup, tree, max_text_len, selected, idx, items, itemSrc>>
    /\ UNCHANGED <<fetchVars, chatVars>>

NextExtract ==
    \/ RemoveComments
    \/ RemoveNoise
    \/ SelectControls
    \/ LoopBody
    \/ ReturnItems
    \/ InventoryToJson

FetchIdle ==
    /\ fpc = "idle" /\ retries = 0 /\ redirects = 0 /\ resp = <<>>
    /\ sent = 0 /\ sentAll = 0 /\ retried = None /\ httpResult = "none"
    /\ browserStarts = 0 /\ html = "none"

ChatIdle == cpc = "idle" /\ data = [k |-> "null"] /\ cur = [k |-> "null"] /\ printed = <<>>

InitExtract ==
    /\ \/ IsTreeDoc /\ Parsed({MainTextLen})
       \/ soup \in ElemDocs /\ Parsed({MainTextLen})
       \/ soup \in TextDocs /\ Parsed(1..MaxTextLen)
    /\ FetchIdle /\ ChatIdle

SpecExtract == InitExtract /\ [][NextExtract]_vars

----------------------------------------------------------------------------
(* Fetching: requests with urllib3's Retry, then the Playwright fallback *)

\* Retry(total=4, ...)
RetryTotal == 4
\* redirects a session follows before TooManyRedirects (requests' default
\* max_redirects is 30; the model follows fewer)
MaxRedirects == 2

\* status_forcelist with one status too many
status_forcelist_with_404 == {404, 429, 500, 502, 503, 504}

status_forcelist == {429, 500, 502, 503, 504}

\* urllib3's Retry.RETRY_AFTER_STATUS_CODES, in force because the Retry is
\* built with the default respect_retry_after_header=True
RETRY_AFTER_STATUS_CODES == {413, 429, 503}

\* requests' REDIRECT_STATI
REDIRECT_STATI == {301, 302, 303, 307, 308}

\* the responses a server may give: a status, with or without a Retry-After
\* header, with or without a Location header
Statuses == {200, 302, 404, 413, 429, 500, 502, 503, 504}
Responses ==
    { r \in [status : Statuses, retry_after : BOOLEAN, location : BOOLEAN] :
        r.location => r.status \in REDIRECT_STATI }

\* Retry.is_retry for a GET: a forced status, or a Retry-After header on one
\* of RETRY_AFTER_STATUS_CODES while total is not 0
is_retry(total, r) ==
    IF r.status \in status_forcelist THEN TRUE
    ELSE total # 0 /\ r.retry_after /\ r.status \in RETRY_AFTER_STATUS_CODES

\* Retry.is_exhausted after an increment
is_exhausted(total) == total < 0

\* Response.is_redirect
is_redirect(r) == r.location /\ r.status \in REDIRECT_STATI

\* `except Exception` for every outcome of the try block
except_always(result) == TRUE

\* line 131: the handler runs when fetch_html_requests raised
except_Exception(result) == result = "raised"

\* main enters fetch_html, which calls fetch_html_requests: the session is
\* built and the GET is about to be transmitted
BuildSession ==
    /\ fpc = "start"
    /\ retries' = RetryTotal
    /\ fpc' = "send"
    /\ UNCHANGED <<redirects, resp, sent, sentAll, retried, httpResult, browserStarts, html>>
    /\ UNCHANGED <<extractVars, chatVars>>

\* one transmission fails (connection refused, reset, timed out): urllib3
\* counts it against total and transmits again, or gives up
TransmitError ==
    /\ fpc = "send"
    /\ sent' = sent + 1
    /\ sentAll' = sentAll + 1
    /\ retries' = retries - 1
    /\ IF is_exhausted(retries - 1)
       THEN httpResult' = "raised" /\ fpc' = "http_done"
       ELSE UNCHANGED <<httpResult, fpc>>
    /\ UNCHANGED <<redirects, resp, retried, browserStarts, html>>
    /\ UNCHANGED <<extractVars, chatVars>>

\* one transmission is answered: urllib3 retries the response, or hands it to
\* requests (raise_on_status=False: also when the retries are used up)
TransmitResponse ==
    /\ fpc = "send"
    /\ \E r \in Responses :
          /\ sent' = sent + 1
          /\ sentAll' = sentAll + 1
          /\ IF is_retry(retries, r) /\ ~is_exhausted(retries - 1)
             THEN /\ retries' = retries - 1
                  /\ retried' = Some(r)
                  /\ UNCHANGED <<resp, fpc>>
             ELSE /\ resp' = Some(r)
                  /\ fpc' = "response"
                  /\ UNCHANGED <<retries, retried>>
    /\ UNCHANGED <<redirects, httpResult, browserStarts, html>>
    /\ UNCHANGED <<extractVars, chatVars>>

\* allow_redirects=True: the session sends the redirected request through the
\* adapter again, with the adapter's Retry as configured
FollowRedirect ==
    /\ fpc = "response"
    /\ is_redirect(resp[1])
    /\ IF redirects >= MaxRedirects
       THEN /\ httpResult' = "raised"
            /\ fpc' = "http_done"
            /\ UNCHANGED <<redirects, retries, sent>>
       ELSE /\ redirects' = redirects + 1
            /\ retries' = RetryTotal
            /\ sent' = 0
            /\ fpc' = "send"
            /\ UNCHANGED httpResult
    /\ UNCHANGED <<resp, sentAll, retried, browserStarts, html>>
    /\ UNCHANGED <<extractVars, chatVars>>

\* lines 110-111: resp.raise_for_status(), then return resp.text
RaiseForStatus ==
    /\ fpc = "response"
    /\ ~is_redirect(resp[1])
    /\ httpResult' = IF resp[1].status >= 400 /\ resp[1].status < 600
                     THEN "raised" ELSE "returned"
    /\ fpc' = "http_done"
    /\ UNCHANGED <<retries, redirects, resp, sent, sentAll, retried, browserStarts, html>>
    /\ UNCHANGED <<extractVars, chatVars>>

\* lines 129-132: return what the HTTP attempt returned, or start the browser
FetchHtmlHandler ==
    /\ fpc = "http_done"
    /\ IF except_Exception(httpResult)
       THEN /\ browserStarts' = browserStarts + 1
            /\ fpc' = "browser"
            /\ UNCHANGED html
       ELSE /\ html' = "http"
            /\ fpc' = "returned"
            /\ UNCHANGED browserStarts
    /\ UNCHANGED <<retries, redirects, resp, sent, sentAll, retried, httpResult>>
    /\ UNCHANGED <<extractVars, chatVars>>

\* fetch_html_playwright returns the page's content or raises; nothing
\* catches what it raises
BrowserDone ==
    /\ fpc = "browser"
    /\ \E ok \in BOOLEAN :
          IF ok THEN html' = "browser" /\ fpc' = "returned"
          ELSE fpc' = "crashed" /\ UNCHANGED html
    /\ UNCHANGED <<retries, redirects, resp, sent, sentAll, retried, httpResult, browserStarts>>
    /\ UNCHANGED <<extractVars, chatVars>>

\* lines 215-227: main writes the files and prints the summary
MainContinues ==
    /\ fpc = "returned"
    /\ fpc' = "main_done"
    /\ UNCHANGED <<retries, redirects, resp, sent, sentAll, retried, httpResult,
                   browserStarts, html>>
    /\ UNCHANGED <<extractVars, chatVars>>

NextFetch ==
    \/ BuildSession
    \/ TransmitError
    \/ TransmitResponse
    \/ FollowRedirect
    \/ RaiseForStatus
    \/ FetchHtmlHandler
    \/ BrowserDone
    \/ MainContinues

InitFetch ==
    /\ fpc = "start" /\ retries = 0 /\ redirects = 0 /\ resp = None
    /\ sent = 0 /\ sentAll = 0 /\ retried = None /\ httpResult = "none"
    /\ browserStarts = 0 /\ html = "none"
    /\ ExtractIdle /\ ChatIdle

SpecFetch == InitFetch /\ [][NextFetch]_vars

----------------------------------------------------------------------------
(* llm.py: one chat-completion request *)

\* the values r.json() may return
VNull == [k |-> "null"]
VNum == [k |-> "num"]
VStr(x) == [k |-> "str", s |-> x]
VList(l) == [k |-> "list", elems |-> l]
VDict(m) == [k |-> "dict", m |-> m]

Scalars == {VNull, VNum, VStr(""), VStr("hi")}

\* values of content, of message, of choices[0], of choices and of the body
Contents == {VNull, VStr("Hello!")}
MessageValues ==
    Scalars \cup {VList(<<>>), VDict([role |-> VStr("assistant")])}
    \cup {VDict([content |-> c]) : c \in Contents}
ChoiceValues ==
    Scalars \cup {VList(<<>>), VDict([index |-> VNum])}
    \cup {VDict([message |-> m]) : m \in MessageValues}
ChoicesValues ==
    Scalars \cup {VList(<<>>), VDict([n |-> VNum])}
    \cup {VList(<<c>>) : c \in ChoiceValues}
DataValues ==
    Scalars \cup {VStr("no choices"), VList(<<>>), VList(<<VStr("choices")>>)}
    \cup {VDict([error |-> VStr("rate limited")])}
    \cup {VDict([choices |-> c]) : c \in ChoicesValues}

\* a response body: a JSON text, or something that is not JSON
NotJson == [k |-> "notjson"]
Bodies == {NotJson} \cup DataValues

Ok(v) == [ok |-> TRUE, v |-> v]
Raise(e) == [ok |-> FALSE, v |-> VStr(e)]

\* the traceback of an uncaught exception, as written to stderr
Traceback(e) == [k |-> "traceback", s |-> e]

\* x in s for Python strings
Contains(s, x) ==
    \E i \in 1..(Len(s) + 1 - Len(x)) : SubSeq(s, i, i + Len(x) - 1) = x

\* `key in v`
In(key, v) ==
    CASE v.k = "dict" -> Ok(key \in DOMAIN v.m)
      [] v.k = "list" -> Ok(\E i \in 1..Len(v.elems) : v.elems[i] = VStr(key))
      [] v.k = "str" -> Ok(Contains(v.s, key))
      [] OTHER -> Raise("TypeError")

\* v[key] for a str key
GetItem(v, key) ==
    CASE v.k = "dict" -> IF key \in DOMAIN v.m THEN Ok(v.m[key]) ELSE Raise("KeyError")
      [] OTHER -> Raise("TypeError")

\* v[0]
GetFirst(v) ==
    CASE v.k = "list" -> IF v.elems # <<>> THEN Ok(v.elems[1]) ELSE Raise("IndexError")
      [] v.k = "str" -> IF Len(v.s) > 0 THEN Ok(VStr(SubSeq(v.s, 1, 1))) ELSE Raise("IndexError")
      [] v.k = "dict" -> Raise("KeyError")
      [] OTHER -> Raise("TypeError")

\* lines 3-13: the request is answered
Post ==
    /\ cpc = "start"
    /\ \E b \in Bodies : data' = b
    /\ cpc' = "received"
    /\ UNCHANGED <<cur, printed>>
    /\ UNCHANGED <<extractVars, fetchVars>>

\* line 15: data = r.json()
ParseBody ==
    /\ cpc = "received"
    /\ IF data = NotJson
       THEN cpc' = "crashed" /\ printed' = <<Traceback("JSONDecodeError")>>
       ELSE cpc' = "parsed" /\ UNCHANGED printed
    /\ UNCHANGED <<data, cur>>
    /\ UNCHANGED <<extractVars, fetchVars>>

\* line 17: if "choices" in data
TestChoices ==
    /\ cpc = "parsed"
    /\ LET r == In("choices", data) IN
       IF ~r.ok THEN cpc' = "crashed" /\ printed' = <<Traceback(r.v.s)>> /\ UNCHANGED cur
       ELSE IF r.v THEN cpc' = "choices" /\ cur' = data /\ UNCHANGED printed
       ELSE cpc' = "else" /\ UNCHANGED <<cur, printed>>
    /\ UNCHANGED data
    /\ UNCHANGED <<extractVars, fetchVars>>

\* the next subscription of data["choices"][0]["message"]["content"]
Subscript(at, next, r) ==
    /\ cpc = at
    /\ IF r.ok THEN cpc' = next /\ cur' = r.v /\ UNCHANGED printed
       ELSE cpc' = "crashed" /\ printed' = <<Traceback(r.v.s)>> /\ UNCHANGED cur
    /\ UNCHANGED data
    /\ UNCHANGED <<extractVars, fetchVars>>

\* line 18, left to right
GetChoices == Subscript("choices", "first", GetItem(cur, "choices"))
GetFirstChoice == Subscript("first", "message", GetFirst(cur))
GetMessage == Subscript("message", "content", GetItem(cur, "message"))
GetContent == Subscript("content", "print", GetItem(cur, "content"))

\* line 18: print(...)
PrintContent ==
    /\ cpc = "print"
    /\ printed' = <<cur>>
    /\ cpc' = "exit"
    /\ UNCHANGED <<data, cur>>
    /\ UNCHANGED <<extractVars, fetchVars>>

\* line 20: print("ERROR:", data)
PrintError ==
    /\ cpc = "else"
    /\ printed' = <<VStr("ERROR:"), data>>
    /\ cpc' = "exit"
    /\ UNCHANGED <<data, cur>>
    /\ UNCHANGED <<extractVars, fetchVars>>

NextChat ==
    \/ Post
    \/ ParseBody
    \/ TestChoices
    \/ GetChoices
    \/ GetFirstChoice
    \/ GetMessage
    \/ GetContent
    \/ PrintContent
    \/ PrintError

InitChat ==
    /\ cpc = "start" /\ data = VNull /\ cur = VNull /\ printed = <<>>
    /\ ExtractIdle /\ FetchIdle

SpecChat == InitChat /\ [][NextChat]_vars

----------------------------------------------------------------------------
(* Reading a JSON text back (json.loads), for the round trip *)

ParseFail == [ok |-> FALSE, v |-> JStr(<<>>), p |-> 0]
ParseOk(v, p) == [ok |-> TRUE, v |-> v, p |-> p]

\* the characters of a string up to its closing quote, unescaped
RECURSIVE ParseStringBody(_, _, _)
ParseStringBody(j, p, acc) ==
    IF p > Len(j) THEN ParseFail
    ELSE IF j[p] = "\"" THEN ParseOk(JStr(acc), p + 1)
    ELSE IF j[p] = "\\" THEN
        IF p + 1 > Len(j) THEN ParseFail
        ELSE IF j[p + 1] \in {"\"", "\\"} THEN ParseStringBody(j, p + 2, Append(acc, j[p + 1]))
        ELSE IF j[p + 1] = "n" THEN ParseStringBody(j, p + 2, Append(acc, "\n"))
        ELSE IF j[p + 1] = "t" THEN ParseStringBody(j, p + 2, Append(acc, "\t"))
        ELSE ParseFail
    ELSE IF j[p] \in {"\n", "\t"} THEN ParseFail
    ELSE ParseStringBody(j, p + 1, Append(acc, j[p]))

ParseString(j, p) ==
    IF p <= Len(j) /\ j[p] = "\"" THEN ParseStringBody(j, p + 1, <<>>) ELSE ParseFail

RECURSIVE ParseValue(_, _), ParseMembers(_, _, _), ParseElements(_, _, _)
ParseValue(j, p) ==
    IF p > Len(j) THEN ParseFail
    ELSE IF j[p] = "\"" THEN ParseString(j, p)
    ELSE IF j[p] = "{" THEN
        IF p + 1 <= Len(j) /\ j[p + 1] = "}" THEN ParseOk(JObj(<<>>), p + 2)
        ELSE ParseMembers(j, p + 1, <<>>)
    ELSE IF j[p] = "[" THEN
        IF p + 1 <= Len(j) /\ j[p + 1] = "]" THEN ParseOk(JArr(<<>>), p + 2)
        ELSE ParseElements(j, p + 1, <<>>)
    ELSE ParseFail
ParseMembers(j, p, acc) ==
    LET k == ParseString(j, p) IN
    IF ~k.ok \/ k.p > Len(j) \/ j[k.p] # ":" THEN ParseFail
    ELSE LET v == ParseValue(j, k.p + 1) IN
         IF ~v.ok \/ v.p > Len(j) THEN ParseFail
         ELSE LET m == Append(acc, <<k.v.s, v.v>>) IN
              IF j[v.p] = "," THEN ParseMembers(j, v.p + 1, m)
              ELSE IF j[v.p] = "}" THEN ParseOk(JObj(m), v.p + 1)
              ELSE ParseFail
ParseElements(j, p, acc) ==
    LET v == ParseValue(j, p) IN
    IF ~v.ok \/ v.p > Len(j) THEN ParseFail
    ELSE LET a == Append(acc, v.v) IN
         IF j[v.p] = "," THEN ParseElements(j, v.p + 1, a)
         ELSE IF j[v.p] = "]" THEN ParseOk(JArr(a), v.p + 1)
         ELSE ParseFail

\* json.loads: the whole text is one value
loads(j) ==
    LET r == ParseValue(j, 1) IN
    IF r.ok /\ r.p = Len(j) + 1 THEN r ELSE ParseFail

\* the keys of a parsed object and the value at a key
Keys(o) == {o.m[i][1] : i \in 1..Len(o.m)}
At(o, key) == o.m[CHOOSE i \in 1..Len(o.m) : o.m[i][1] = key][2]

----------------------------------------------------------------------------
(* Properties of the extractor and the serialiser *)

Returned == pc \in {"done", "serialized"}
Selected == pc \in {"loop", "done", "serialized"}

\* the text of an element as the extractor's rules give it, before truncation
NormalizedText(i) == _normalize_text(get_text(soup, tree, i))

\* an item's text, "" when it is None
TextOf(it) == IF it.text = None THEN <<>> ELSE it.text[1]
\* an item's attrs, the empty mapping when it is None
AttrsOf(it) == IF it.attrs = None THEN <<>> ELSE it.attrs[1]

\* the single ellipsis character the truncation is specified to append
OneEllipsis == <<"U+2026">>

\* C1: an item's text is the normalized text when that is at most
\* max_text_len long; otherwise it is max_text_len characters long, the first
\* max_text_len - 1 characters of the normalized text and one ellipsis character
C1_TruncationAsSpecified ==
    Returned =>
        \A k \in 1..Len(items) :
            LET norm == NormalizedText(itemSrc[k]) IN
            IF Len(norm) > max_text_len
            THEN /\ Len(TextOf(items[k])) = max_text_len
                 /\ TextOf(items[k]) = SubSeq(norm, 1, max_text_len - 1) \o OneEllipsis
            ELSE TextOf(items[k]) = norm

\* hidden as the specification defines it
HiddenAsSpecified(el) ==
    \/ /\ "aria-hidden" \in DOMAIN el.attrs
       /\ lower(AttrString(el.attrs["aria-hidden"])) = <<"t", "r", "u", "e">>
    \/ /\ el.tag = "input"
       /\ "type" \in DOMAIN el.attrs
       /\ lower(AttrString(el.attrs["type"])) = <<"h", "i", "d", "d", "e", "n">>

\* C4: no item comes from a hidden element, whatever its text and its other
\* attributes
C4_HiddenExcluded ==
    \A k \in 1..Len(items) : ~HiddenAsSpecified(soup[itemSrc[k]])

\* a hidden element with text and a kept attribute went through the loop, in
\* upper case, and left no item
C4_Witness ==
    /\ Returned
    /\ \E i \in 1..Len(selected) :
          LET el == soup[selected[i]] IN
          /\ HiddenAsSpecified(el)
          /\ "aria-hidden" \in DOMAIN el.attrs
          /\ el.attrs["aria-hidden"] = StrVal("TRUE")
          /\ "data-testid" \in DOMAIN el.attrs
          /\ NormalizedText(selected[i]) # <<>>
    /\ items = <<>>

\* the allow-list and the prefix as the specification gives them
AllowedAsSpecified(n) ==
    \/ n \in {"id", "name", "type", "placeholder", "value", "href", "for", "role",
              "aria-label", "aria-labelledby", "aria-describedby",
              "data-testid", "data-test", "data-qa"}
    \/ (Len(n) >= 9 /\ SubSeq(n, 1, 9) = "data-test")

KeptNames(el) ==
    {n \in DOMAIN el.attrs : AllowedAsSpecified(n) /\ el.attrs[n].t # "none"}

\* C5: every item has text or attrs; a selected element that is not hidden
\* yields no item when its normalized text and its filtered attributes are both
\* empty, and exactly one item otherwise
C5_ItemsNonEmptyAndComplete ==
    /\ \A k \in 1..Len(items) :
          TextOf(items[k]) # <<>> \/ DOMAIN AttrsOf(items[k]) # {}
    /\ Returned =>
          \A i \in {selected[x] : x \in 1..Len(selected)} :
              LET n == Cardinality({k \in 1..Len(items) : itemSrc[k] = i}) IN
              IF HiddenAsSpecified(soup[i]) THEN n = 0
              ELSE IF NormalizedText(i) = <<>> /\ KeptNames(soup[i]) = {} THEN n = 0
              ELSE n = 1

\* one run dropped an element with neither text nor kept attributes although
\* it carried an attribute, and another kept an element whose only kept
\* attribute has the empty string as its value
C5_Witness ==
    /\ Returned
    /\ Len(selected) = 1
    /\ ~HiddenAsSpecified(soup[selected[1]])
    /\ NormalizedText(selected[1]) = <<>>
    /\ "id" \in DOMAIN soup[selected[1]].attrs
    /\ "class" \in DOMAIN soup[selected[1]].attrs
    /\ Len(items) = 1
    /\ items[1].text = None

\* C6: the keys of an item's attrs are exactly the element's attributes that
\* are allow-listed or start with "data-test" and are not None; data-testid and
\* data-test-foo are kept, class never is; a multi-valued attribute is stored
\* as its values joined by single spaces
C6_AttrsFiltered ==
    \A k \in 1..Len(items) :
        LET el == soup[itemSrc[k]]
            out == AttrsOf(items[k])
        IN /\ DOMAIN out = KeptNames(el)
           /\ "data-testid" \in DOMAIN el.attrs => "data-testid" \in DOMAIN out
           /\ "data-test-foo" \in DOMAIN el.attrs => "data-test-foo" \in DOMAIN out
           /\ "class" \notin DOMAIN out
           /\ \A n \in DOMAIN out :
                 IF el.attrs[n].t = "list"
                 THEN out[n] = join(<<" ">>, el.attrs[n].parts)
                 ELSE out[n] = el.attrs[n].parts[1]

\* an output element (role=button, for="f g") was emitted with for joined
C6_Witness ==
    /\ Returned
    /\ \E k \in 1..Len(items) :
          LET el == soup[itemSrc[k]] IN
          /\ "for" \in DOMAIN el.attrs
          /\ el.attrs["for"].t = "list"
          /\ Len(el.attrs["for"].parts) = 2
          /\ AttrsOf(items[k])["for"] = <<"f", " ", "g">>

\* an element as the selector picks it, stated on the tag and the role
SelectedAsSpecified(el) ==
    /\ el.kind = "elem"
    /\ \/ el.tag \in {"button", "a", "input", "textarea", "select", "option",
                      "label", "summary", "details"}
       \/ /\ "role" \in DOMAIN el.attrs
          /\ el.attrs["role"].t = "str"
          /\ \E r \in {"button", "link", "textbox", "searchbox", "combobox", "listbox",
                       "checkbox", "radio", "tab", "menuitem"} :
                el.attrs["role"].parts[1] = Chars(r)

\* C7: the items come from selected elements, in document order, and no
\* element yields two items
C7_DocumentOrder ==
    /\ \A k \in 1..Len(items) : SelectedAsSpecified(soup[itemSrc[k]])
    /\ \A a \in 1..Len(items), b \in 1..Len(items) :
          a < b => itemSrc[a] < itemSrc[b]

\* two items were emitted, the first from an element only its role selects,
\* the second from an element that matches the selector twice
C7_Witness ==
    /\ Returned
    /\ Len(items) = 2
    /\ soup[itemSrc[1]].tag = "div"
    /\ soup[itemSrc[2]].tag = "button"
    /\ "role" \in DOMAIN soup[itemSrc[2]].attrs

\* C8: json.loads of inventory_to_json's string is an array with one object
\* per item, in order: tag always, text iff the item's text is non-empty, attrs
\* iff the item's attrs is non-empty, each with the item's value
C8_JsonRoundTrip ==
    pc = "serialized" =>
        LET r == loads(inv_json) IN
        /\ r.ok
        /\ r.v.t = "arr"
        /\ Len(r.v.m) = Len(items)
        /\ \A k \in 1..Len(items) :
              LET o == r.v.m[k]
                  it == items[k]
              IN /\ o.t = "obj"
                 /\ Keys(o) \subseteq {Chars("tag"), Chars("text"), Chars("attrs")}
                 /\ Chars("tag") \in Keys(o)
                 /\ At(o, Chars("tag")) = JStr(Chars(it.tag))
                 /\ Chars("text") \in Keys(o) <=> TextOf(it) # <<>>
                 /\ Chars("text") \in Keys(o) => At(o, Chars("text")) = JStr(TextOf(it))
                 /\ Chars("attrs") \in Keys(o) <=> DOMAIN AttrsOf(it) # {}
                 /\ Chars("attrs") \in Keys(o) =>
                       LET a == At(o, Chars("attrs")) IN
                       /\ a.t = "obj"
                       /\ Len(a.m) = Cardinality(DOMAIN AttrsOf(it))
                       /\ Keys(a) = {Chars(n) : n \in DOMAIN AttrsOf(it)}
                       /\ \A n \in DOMAIN AttrsOf(it) :
                             At(a, Chars(n)) = JStr(AttrsOf(it)[n])

\* an item whose text holds a quote and a backslash and whose attribute value
\* holds a quote, a backslash and a newline was serialised
C8_Witness ==
    /\ pc = "serialized"
    /\ Len(items) = 1
    /\ TextOf(items[1]) = <<"\"", "\\">>
    /\ "id" \in DOMAIN AttrsOf(items[1])
    /\ AttrsOf(items[1])["id"] = <<"a", "\"", "\\", "\n">>

\* a noise-tag element, or a node below one
RECURSIVE InNoise(_)
InNoise(i) ==
    \/ /\ soup[i].kind = "elem"
       /\ soup[i].tag \in {"script", "style", "noscript", "svg", "img", "video", "canvas"}
    \/ soup[i].parent # 0 /\ InNoise(soup[i].parent)

\* the nodes that are neither comments nor noise
Clean == {i \in 1..Len(soup) : soup[i].kind # "comment" /\ ~InNoise(i)}

\* C10: once the elements are selected none of them is a noise tag or lies
\* below one, no item comes from such an element, and an item's text is the
\* text of the element's descendants that are neither in noise nor comments
C10_NoiseRemovedBeforeSelection ==
    Selected =>
        /\ \A x \in 1..Len(selected) : ~InNoise(selected[x])
        /\ \A k \in 1..Len(items) :
              /\ ~InNoise(itemSrc[k])
              /\ TextOf(items[k]) = ItemText(soup, Clean, itemSrc[k], max_text_len)

\* an item was emitted for an element that held text inside a noise subtree:
\* the text is not the item's
C10_Witness ==
    /\ Returned
    /\ \E k \in 1..Len(items) :
          /\ \E j \in 1..Len(soup) :
                /\ soup[j].kind = "text"
                /\ IsAncestor(soup, itemSrc[k], j)
                /\ InNoise(j)
          /\ items[k].text = None

----------------------------------------------------------------------------
(* Properties of fetch_html *)

C3_RetriesAsClaimed ==
    /\ sentAll <= 1 + 4
    /\ retried # None => retried[1].status \in {429, 500, 502, 503, 504}
    /\ (fpc = "http_done" /\ resp # None /\ resp[1].status \in {429, 500, 502, 503, 504})
          => httpResult = "raised"

\* C3 amended: each request of the attempt (the first one and each redirect
\* followed) is transmitted at most 1 + 4 times, and the redirects followed are
\* limited; a response is retried only when its status is 429, 500, 502, 503 or
\* 504, or is 413 with a Retry-After header; with the retries used up on such
\* a status the attempt raises, and it never returns the markup of an error page
C3_RetriesAmended ==
    /\ sent <= 1 + 4
    /\ redirects <= MaxRedirects
    /\ sentAll <= (redirects + 1) * (1 + 4)
    /\ retried # None =>
          \/ retried[1].status \in {429, 500, 502, 503, 504}
          \/ retried[1].status = 413 /\ retried[1].retry_after
    /\ (fpc = "http_done" /\ resp # None
          /\ resp[1].status \in {413, 429, 500, 502, 503, 504})
          => httpResult = "raised"
    /\ httpResult = "returned" => resp[1].status < 400

\* after a redirect, a 413 with Retry-After was the fourth response retried
\* and the fifth transmission was answered 503: the attempt raised
C3_Witness ==
    /\ fpc = "http_done"
    /\ redirects = 1
    /\ sent = 5
    /\ retried = Some([status |-> 413, retry_after |-> TRUE, location |-> FALSE])
    /\ resp # None
    /\ resp[1].status = 503
    /\ httpResult = "raised"

----------------------------------------------------------------------------
(* Properties of llm.py *)

\* a body with the expected shape: an object whose choices is a non-empty
\* list, whose first choice is an object with a message object with content
ExpectedShape(d) ==
    /\ d.k = "dict" /\ "choices" \in DOMAIN d.m
    /\ d.m["choices"].k = "list" /\ d.m["choices"].elems # <<>>
    /\ LET c == d.m["choices"].elems[1] IN
       /\ c.k = "dict" /\ "message" \in DOMAIN c.m
       /\ c.m["message"].k = "dict" /\ "content" \in DOMAIN c.m["message"].m

\* C9: no response ends the script in an uncaught exception; a response of
\* the expected shape has its first choice's content printed, every other
\* one "ERROR:" and the payload
C9_MalformedRecovered ==
    /\ cpc # "crashed"
    /\ cpc = "exit" =>
          IF ExpectedShape(data)
          THEN printed = <<data.m["choices"].elems[1].m["message"].m["content"]>>
          ELSE printed = <<VStr("ERROR:"), data>>

====
